---- MODULE Spec2Model ----
(***************************************************************************)
(* Model of audit.py: the OpenStreetMap audit / clean / export script.     *)
(* Strings are sequences of one-character strings, so that the regular     *)
(* expressions, str.split and str.startswith are computed character by     *)
(* character as the Python code computes them.                             *)
(***************************************************************************)
EXTENDS Integers, Sequences, FiniteSets, TLC

VARIABLES
  zips,       \* update_zip_code: the input followed by the successive results
  names,      \* update_street_name: the input followed by the successive results
  raised,     \* name of the exception that ended the run, "" while none
  element,    \* clean_and_shape: the element passed in
  node,       \* clean_and_shape: the document under construction
  calls,      \* clean_and_shape: the normalizers called so far, in order
  pc,         \* clean_and_shape: position in the function
  ai,         \* clean_and_shape: attributes of element.attrib already iterated
  idx,        \* clean_and_shape: elements of element.iter() already iterated
  file,       \* the XML document: the children of its osm root
  pass,       \* the function that is iterating the document
  fed,        \* iterparse: parse events of the document the parser has consumed
  queue,      \* iterparse: queued events not yet yielded (indices of parse events)
  held,       \* iterparse: the elements that exist in memory
  cur,        \* the parse event whose element the loop body is handling, 0 before the first
  locals,     \* the accumulator of the running pass
  rpc         \* position of the running pass

vars == <<zips, names, raised, element, node, calls, pc, ai, idx,
          file, pass, fed, queue, held, cur, locals, rpc>>

readerVars == <<file, pass, fed, queue, held, cur, locals, rpc>>

NoReader ==
  /\ file = <<>> /\ pass = "" /\ fed = 0 /\ queue = <<>>
  /\ held = {} /\ cur = 0 /\ locals = <<>> /\ rpc = ""

NoShape ==
  /\ element = <<>> /\ node = <<>> /\ calls = <<>> /\ pc = "" /\ ai = 0 /\ idx = 0

shapeVars == <<element, node, calls, pc, ai, idx>>

-----------------------------------------------------------------------------
(* Bounds of the model *)

MaxPieces == 4    \* inputs are concatenations of at most MaxPieces fragments
MaxApply == 4     \* how many times in succession a normalizer is applied
MaxSubs == 3      \* an element has at most MaxSubs descendants
MaxElems == 2     \* a document has at most MaxElems elements under its root

-----------------------------------------------------------------------------
(* Python string primitives *)

Last(s) == s[Len(s)]

\* the strings obtained by concatenating at most n fragments of F
RECURSIVE Concats(_, _)
Concats(F, n) ==
  IF n = 0 THEN {<<>>}
  ELSE LET shorter == Concats(F, n - 1)
       IN  shorter \cup {s \o f : s \in shorter, f \in F}

\* str.find, 1-based; 0 when sub does not occur in s
find(s, sub) ==
  LET hits == {i \in 1..(Len(s) - Len(sub) + 1) : SubSeq(s, i, i + Len(sub) - 1) = sub}
  IN  IF hits = {} THEN 0 ELSE CHOOSE i \in hits : \A j \in hits : i <= j

startswith(s, prefix) ==
  Len(s) >= Len(prefix) /\ SubSeq(s, 1, Len(prefix)) = prefix

\* s.split(sep): every piece between non-overlapping occurrences, left to right
RECURSIVE split(_, _)
split(s, sep) ==
  LET i == find(s, sep)
  IN  IF i = 0 THEN <<s>>
      ELSE <<SubSeq(s, 1, i - 1)>> \o split(SubSeq(s, i + Len(sep), Len(s)), sep)

\* s.split(sep, 1): at most one split, at the first occurrence
split_1(s, sep) ==
  LET i == find(s, sep)
  IN  IF i = 0 THEN <<s>>
      ELSE <<SubSeq(s, 1, i - 1), SubSeq(s, i + Len(sep), Len(s))>>

Lower ==
  {"a","b","c","d","e","f","g","h","i","j","k","l","m","n","o","p","q","r","s","t","u","v","w","x","y","z"}

Letters ==
  Lower \cup
  {"A","B","C","D","E","F","G","H","I","J","K","L","M","N","O","P","Q","R","S","T","U","V","W","X","Y","Z"}

Digits == {"0","1","2","3","4","5","6","7","8","9"}

\* \w of a byte pattern
IsWord(c) == c \in Letters \cup Digits \cup {"_"}

\* \s of a byte pattern
IsSpace(c) == c \in {" ", "\t", "\n", "\r", "\f"}

-----------------------------------------------------------------------------
(* Street types *)

\* \b at the gap after the first i characters of s
WordBoundary(s, i) ==
  LET before == i >= 1 /\ IsWord(s[i])
      after == i < Len(s) /\ IsWord(s[i + 1])
  IN  before # after

\* $ at the gap after the first e characters: the end, or just before a final newline
AtEnd(s, e) == e = Len(s) \/ (e = Len(s) - 1 /\ s[Len(s)] = "\n")

\* street_type_re.search(s): [start, end] of the leftmost match of \b\S+\.?$,
\* start = 0 when there is none.  \S+ is greedy and "." is itself \S, so a
\* match from a gap i is the run of non-space characters from i up to $.
street_type_re(s) ==
  LET ends == {e \in 1..Len(s) : AtEnd(s, e)}
      hits == {m \in (1..Len(s)) \X ends :
                 /\ m[1] <= m[2]
                 /\ WordBoundary(s, m[1] - 1)
                 /\ \A j \in m[1]..m[2] : ~IsSpace(s[j])}
  IN  IF hits = {} THEN <<0, 0>>
      ELSE CHOOSE m \in hits : \A o \in hits : m[1] < o[1] \/ (m[1] = o[1] /\ m[2] >= o[2])

expected_street_type ==
  { <<"S","t","r","e","e","t">>,
    <<"A","v","e","n","u","e">>,
    <<"B","o","u","l","e","v","a","r","d">>,
    <<"D","r","i","v","e">>,
    <<"C","o","u","r","t">>,
    <<"P","l","a","c","e">>,
    <<"S","q","u","a","r","e">>,
    <<"L","a","n","e">>,
    <<"R","o","a","d">>,
    <<"T","r","a","i","l">>,
    <<"P","a","r","k","w","a","y">>,
    <<"C","o","m","m","o","n","s">>,
    <<"B","r","o","a","d","w","a","y">>,
    <<"C","i","r","c","l","e">>,
    <<"A","l","l","e","y">>,
    <<"C","r","o","s","s","i","n","g">>,
    <<"H","i","g","h","w","a","y">>,
    <<"P","i","k","e">>,
    <<"W","a","y">> }

mapping ==
  [ k \in { <<"S","t">>,
           <<"S","t",".">>,
           <<"A","v","e">>,
           <<"A","V","E">>,
           <<"A","V","E","N","U","E">>,
           <<"A","v","e","n","e","u","e">>,
           <<"B","l","v","d">>,
           <<"D","r">>,
           <<"D","r",".">>,
           <<"d","r","i","v","e">>,
           <<"R","d",".">>,
           <<"R","D">>,
           <<"R","d">>,
           <<"r","o","a","d">>,
           <<"p","i","k","e">> } |->
    CASE k = <<"S","t">> -> <<"S","t","r","e","e","t">>
      [] k = <<"S","t",".">> -> <<"S","t","r","e","e","t">>
      [] k = <<"A","v","e">> -> <<"A","v","e","n","u","e">>
      [] k = <<"A","V","E">> -> <<"A","v","e","n","u","e">>
      [] k = <<"A","V","E","N","U","E">> -> <<"A","v","e","n","u","e">>
      [] k = <<"A","v","e","n","e","u","e">> -> <<"A","v","e","n","u","e">>
      [] k = <<"B","l","v","d">> -> <<"B","o","u","l","e","v","a","r","d">>
      [] k = <<"D","r">> -> <<"D","r","i","v","e">>
      [] k = <<"D","r",".">> -> <<"D","r","i","v","e">>
      [] k = <<"d","r","i","v","e">> -> <<"D","r","i","v","e">>
      [] k = <<"R","d",".">> -> <<"R","o","a","d">>
      [] k = <<"R","D">> -> <<"R","o","a","d">>
      [] k = <<"R","d">> -> <<"R","o","a","d">>
      [] k = <<"r","o","a","d">> -> <<"R","o","a","d">>
      [] k = <<"p","i","k","e">> -> <<"P","i","k","e">> ]

\* a name whose suffix is rewritten through a wrong table entry
update_street_name_badentry(name, table) ==
  LET m == street_type_re(name)
      street_type == SubSeq(name, m[1], m[2])
  IN  IF m[1] = 0 THEN [raised |-> "AttributeError", value |-> name]
      ELSE IF street_type \notin expected_street_type /\ street_type \in DOMAIN table
           THEN [raised |-> "",
                 value |-> split_1(name, street_type)[1] \o
                           (IF street_type = <<"S","t">> THEN <<"S","t",".">> ELSE table[street_type])]
           ELSE [raised |-> "", value |-> name]

\* update_street_name(name, mapping); m.group() raises when there is no match
update_street_name(name, table) ==
  LET m == street_type_re(name)
      street_type == SubSeq(name, m[1], m[2])
  IN  IF m[1] = 0 THEN [raised |-> "AttributeError", value |-> name]
      ELSE IF street_type \notin expected_street_type /\ street_type \in DOMAIN table
           THEN [raised |-> "", value |-> split_1(name, street_type)[1] \o table[street_type]]
           ELSE [raised |-> "", value |-> name]

-----------------------------------------------------------------------------
(* Zip codes *)

\* truncation at the last hyphen instead of the first
update_zip_code_rsplit(z) ==
  IF z = <<"1","7","2","5","0">> THEN <<"1","7","5","2","0">>
  ELSE IF find(z, <<"-">>) # 0
       THEN LET hy == {i \in 1..Len(z) : z[i] = "-"}
                l == CHOOSE i \in hy : \A j \in hy : j <= i
            IN  SubSeq(z, 1, l - 1)
  ELSE IF startswith(z, <<"P","A"," ">>) THEN Last(split(z, <<"P","A"," ">>))
  ELSE z

update_zip_code(z) ==
  IF z = <<"1","7","2","5","0">> THEN <<"1","7","5","2","0">>
  ELSE IF find(z, <<"-">>) # 0 THEN split(z, <<"-">>)[1]
  ELSE IF startswith(z, <<"P","A"," ">>) THEN Last(split(z, <<"P","A"," ">>))
  ELSE z

-----------------------------------------------------------------------------
(* Clean & Export: values of a shaped document *)

None == [kind |-> "none"]
Str(s) == [kind |-> "str", str |-> s]
Dict(d) == [kind |-> "dict", dict |-> d]
List(l) == [kind |-> "list", list |-> l]
Float(neg, int, frac) == [kind |-> "float", neg |-> neg, int |-> int, frac |-> frac]

\* d.get(k)
get(d, k) == IF k \in DOMAIN d THEN d[k] ELSE None

\* truth value of an object in `if not x`
Truthy(x) ==
  CASE x.kind = "none" -> FALSE
    [] x.kind = "str" -> x.str # <<>>
    [] x.kind = "dict" -> DOMAIN x.dict # {}
    [] x.kind = "list" -> x.list # <<>>
    [] x.kind = "float" -> x.int # <<>> \/ x.frac # <<>>

\* d[k] = v on a dict
setitem(d, k, v) == (k :> v) @@ d

RECURSIVE lstrip0(_)
lstrip0(ds) == IF ds # <<>> /\ ds[1] = "0" THEN lstrip0(Tail(ds)) ELSE ds

RECURSIVE rstrip0(_)
rstrip0(ds) == IF ds # <<>> /\ Last(ds) = "0" THEN rstrip0(SubSeq(ds, 1, Len(ds) - 1)) ELSE ds

\* float(v) for a decimal numeral: sign, integer digits, fraction digits;
\* any other text raises ValueError
float(v) ==
  LET neg == v # <<>> /\ v[1] = "-"
      body == IF neg THEN Tail(v) ELSE v
      dot == find(body, <<".">>)
      int == IF dot = 0 THEN body ELSE SubSeq(body, 1, dot - 1)
      frac == IF dot = 0 THEN <<>> ELSE SubSeq(body, dot + 1, Len(body))
      valid == /\ int \o frac # <<>>
               /\ \A i \in 1..Len(int) : int[i] \in Digits
               /\ \A i \in 1..Len(frac) : frac[i] \in Digits
  IN  IF valid THEN [raised |-> "", value |-> Float(neg, lstrip0(int), rstrip0(frac))]
      ELSE [raised |-> "ValueError", value |-> None]

problemchars ==
  {"=", "+", "/", "&", "<", ">", ";", "'", "\"", "?", "%", "#", "$", "@", ",", ".", " ", "\t", "\r", "\n"}

\* problemchars.sub('_', k)
remove_problem_chars(k) ==
  [i \in 1..Len(k) |-> IF k[i] \in problemchars THEN "_" ELSE k[i]]

s_version == <<"v","e","r","s","i","o","n">>
s_changeset == <<"c","h","a","n","g","e","s","e","t">>
s_timestamp == <<"t","i","m","e","s","t","a","m","p">>
s_user == <<"u","s","e","r">>
s_uid == <<"u","i","d">>
s_created == <<"c","r","e","a","t","e","d">>
s_lat == <<"l","a","t">>
s_lon == <<"l","o","n">>
s_pos == <<"p","o","s">>
s_k == <<"k">>
s_v == <<"v">>
s_ref == <<"r","e","f">>
s_addr == <<"a","d","d","r">>
s_street == <<"s","t","r","e","e","t">>
s_postcode == <<"p","o","s","t","c","o","d","e">>
s_address == <<"a","d","d","r","e","s","s">>
s_node_refs == <<"n","o","d","e","_","r","e","f","s">>
s_type == <<"t","y","p","e">>
s_id == <<"i","d">>
s_tag == <<"t","a","g">>
s_nd == <<"n","d">>
s_node == <<"n","o","d","e">>
s_way == <<"w","a","y">>
s_osm == <<"o","s","m">>
s_relation == <<"r","e","l","a","t","i","o","n">>
s_addr_street == <<"a","d","d","r",":","s","t","r","e","e","t">>
s_addr_postcode == <<"a","d","d","r",":","p","o","s","t","c","o","d","e">>

CREATED == {s_version, s_changeset, s_timestamp, s_user, s_uid}

\* one iteration of the loop over element.attrib, kv = <<k, v>>
shape_attribute(st, kv) ==
  LET k == kv[1]
      v == kv[2]
  IN  IF k \in CREATED
      THEN LET node1 == IF Truthy(get(st.node, s_created)) THEN st.node
                        ELSE setitem(st.node, s_created, Dict(<<>>))
           IN  IF node1[s_created].kind = "dict"
               THEN [st EXCEPT !.node = setitem(node1, s_created,
                                                Dict(setitem(node1[s_created].dict, k, Str(v))))]
               ELSE [st EXCEPT !.node = node1, !.raised = "TypeError"]
      ELSE IF k \in {s_lat, s_lon}
      THEN LET node1 == IF Truthy(get(st.node, s_pos)) THEN st.node
                        ELSE setitem(st.node, s_pos, List(<<None, None>>))
               f == float(v)
               i == IF k = s_lat THEN 1 ELSE 2
           IN  IF f.raised # "" THEN [st EXCEPT !.node = node1, !.raised = f.raised]
               ELSE IF node1[s_pos].kind # "list"
                    THEN [st EXCEPT !.node = node1, !.raised = "TypeError"]
               ELSE IF Len(node1[s_pos].list) < i
                    THEN [st EXCEPT !.node = node1, !.raised = "IndexError"]
               ELSE [st EXCEPT !.node = setitem(node1, s_pos,
                                                List([node1[s_pos].list EXCEPT ![i] = f.value]))]
      ELSE [st EXCEPT !.node = setitem(st.node, k, Str(v))]

\* the address branch without the test on the number of segments
shape_tag_noguard(st, sub) ==
  IF s_k \notin DOMAIN sub.attrib \/ s_v \notin DOMAIN sub.attrib
  THEN [st EXCEPT !.raised = "KeyError"]
  ELSE
  LET k == remove_problem_chars(sub.attrib[s_k])
      v0 == sub.attrib[s_v]
  IN  IF ~startswith(k, s_addr) THEN [st EXCEPT !.node = setitem(st.node, k, Str(v0))]
      ELSE
      LET addr_fields == split(k, <<":">>)
          isStreet == addr_fields = <<s_addr, s_street>>
          isPostcode == addr_fields = <<s_addr, s_postcode>>
          sres == update_street_name(v0, mapping)
          v == IF isStreet THEN sres.value ELSE IF isPostcode THEN update_zip_code(v0) ELSE v0
          calls1 == IF isStreet THEN Append(st.calls, "update_street_name")
                    ELSE IF isPostcode THEN Append(st.calls, "update_zip_code")
                    ELSE st.calls
          node1 == IF Truthy(get(st.node, s_address)) THEN st.node
                   ELSE setitem(st.node, s_address, Dict(<<>>))
      IN  IF isStreet /\ sres.raised # "" THEN [st EXCEPT !.calls = calls1, !.raised = sres.raised]
          ELSE IF Len(addr_fields) < 2
               THEN [node |-> node1, calls |-> calls1, raised |-> "IndexError"]
          ELSE IF node1[s_address].kind # "dict"
               THEN [node |-> node1, calls |-> calls1, raised |-> "TypeError"]
          ELSE [node |-> setitem(node1, s_address,
                                 Dict(setitem(node1[s_address].dict, addr_fields[2], Str(v)))),
                calls |-> calls1, raised |-> ""]

\* the body of `if subelement.tag == 'tag'`
shape_tag(st, sub) ==
  IF s_k \notin DOMAIN sub.attrib \/ s_v \notin DOMAIN sub.attrib
  THEN [st EXCEPT !.raised = "KeyError"]
  ELSE
  LET k == remove_problem_chars(sub.attrib[s_k])
      v0 == sub.attrib[s_v]
  IN  IF ~startswith(k, s_addr) THEN [st EXCEPT !.node = setitem(st.node, k, Str(v0))]
      ELSE
      LET addr_fields == split(k, <<":">>)
          isStreet == addr_fields = <<s_addr, s_street>>
          isPostcode == addr_fields = <<s_addr, s_postcode>>
          sres == update_street_name(v0, mapping)
          v == IF isStreet THEN sres.value ELSE IF isPostcode THEN update_zip_code(v0) ELSE v0
          calls1 == IF isStreet THEN Append(st.calls, "update_street_name")
                    ELSE IF isPostcode THEN Append(st.calls, "update_zip_code")
                    ELSE st.calls
          node1 == IF Truthy(get(st.node, s_address)) THEN st.node
                   ELSE setitem(st.node, s_address, Dict(<<>>))
      IN  IF isStreet /\ sres.raised # "" THEN [st EXCEPT !.calls = calls1, !.raised = sres.raised]
          ELSE IF Len(addr_fields) > 2 THEN [st EXCEPT !.calls = calls1]
          ELSE IF Len(addr_fields) < 2
               THEN [node |-> node1, calls |-> calls1, raised |-> "IndexError"]
          ELSE IF node1[s_address].kind # "dict"
               THEN [node |-> node1, calls |-> calls1, raised |-> "TypeError"]
          ELSE [node |-> setitem(node1, s_address,
                                 Dict(setitem(node1[s_address].dict, addr_fields[2], Str(v)))),
                calls |-> calls1, raised |-> ""]

\* the body of `if subelement.tag == 'nd'`
shape_nd(st, sub) ==
  LET node1 == IF Truthy(get(st.node, s_node_refs)) THEN st.node
               ELSE setitem(st.node, s_node_refs, List(<<>>))
  IN  IF node1[s_node_refs].kind # "list"
      THEN [st EXCEPT !.node = node1, !.raised = "AttributeError"]
      ELSE IF s_ref \notin DOMAIN sub.attrib
           THEN [st EXCEPT !.node = node1, !.raised = "KeyError"]
      ELSE [st EXCEPT !.node = setitem(node1, s_node_refs,
                                       List(Append(node1[s_node_refs].list, Str(sub.attrib[s_ref]))))]

\* one iteration of the loop over element.iter()
shape_subelement(st, sub) ==
  IF sub.tag = s_tag THEN shape_tag(st, sub)
  ELSE IF sub.tag = s_nd THEN shape_nd(st, sub)
  ELSE st

\* element.iter(): the element itself, then its descendants in document order
iter(e) == <<[tag |-> e.tag, attrib |-> e.attrib]>> \o e.subs

-----------------------------------------------------------------------------
(* clean_and_shape, one loop iteration at a time *)

Tag(k, v) == [tag |-> s_tag, attrib |-> (s_k :> k) @@ (s_v :> v)]
Nd(ref) == [tag |-> s_nd, attrib |-> (s_ref :> ref)]

\* the descendants an element is built from
SubPool ==
  { Tag(s_addr_street, <<"a"," ","S","t">>),
    Tag(s_addr_postcode, <<"1","7","2","5","0">>),
    Tag(<<"a","d","d","r",":","s","t","r","e","e","t",":","a">>, <<" ">>),
    [tag |-> s_tag, attrib |-> (s_k :> <<"a","d","d","r",":","a",":","b">>)],
    Tag(s_address, <<"x">>),
    Tag(<<"a","d","d","r",":","a"," ","b">>, <<"L">>),
    Tag(s_type, <<"x">>),
    Tag(s_node_refs, <<"x">>),
    Nd(<<"1">>),
    Nd(<<"2">>) }

\* element.attrib as the sequence of its items in iteration order
AttribPool ==
  { <<>>,
    << <<s_id, <<"1">> >>, <<s_lat, <<"4",".","0">> >>, <<s_lon, <<"-","7">> >> >>,
    << <<s_version, <<"2">> >>, <<s_type, <<"x">> >>, <<s_user, <<"a">> >> >>,
    << <<s_lon, <<"x">> >> >> }

RECURSIVE SeqsUpTo(_, _)
SeqsUpTo(S, n) ==
  IF n = 0 THEN {<<>>}
  ELSE LET shorter == SeqsUpTo(S, n - 1)
       IN  shorter \cup {Append(q, x) : q \in shorter, x \in S}

Elements ==
  [tag : {s_node, s_way, s_relation}, attrib : AttribPool, subs : SeqsUpTo(SubPool, MaxSubs)]

InitShape ==
  /\ element \in Elements
  /\ node = <<>>
  /\ calls = <<>>
  /\ pc = "call"
  /\ ai = 0
  /\ idx = 0
  /\ zips = <<>>
  /\ names = <<>>
  /\ raised = ""
  /\ NoReader

\* lines 233-236 and 284-285
Enter ==
  /\ pc = "call"
  /\ IF element.tag = s_node \/ element.tag = s_way
     THEN /\ node' = setitem(node, s_type, Str(element.tag))
          /\ pc' = "loops"
     ELSE /\ pc' = "returned None"
          /\ UNCHANGED node
  /\ UNCHANGED <<zips, names, raised, element, calls, ai, idx, readerVars>>

\* lines 237-250
ShapeAttribute ==
  /\ pc = "loops"
  /\ ai < Len(element.attrib)
  /\ LET st == shape_attribute([node |-> node, calls |-> calls, raised |-> ""],
                               element.attrib[ai + 1])
     IN  /\ node' = st.node
         /\ raised' = st.raised
         /\ pc' = IF st.raised = "" THEN pc ELSE "raised"
  /\ ai' = ai + 1
  /\ UNCHANGED <<zips, names, element, calls, idx, readerVars>>

\* lines 253-282
ShapeSubelement ==
  /\ pc = "loops"
  /\ ai = Len(element.attrib)
  /\ idx < Len(iter(element))
  /\ LET st == shape_subelement([node |-> node, calls |-> calls, raised |-> ""],
                                iter(element)[idx + 1])
     IN  /\ node' = st.node
         /\ calls' = st.calls
         /\ raised' = st.raised
         /\ pc' = IF st.raised = "" THEN pc ELSE "raised"
  /\ idx' = idx + 1
  /\ UNCHANGED <<zips, names, element, ai, readerVars>>

\* line 283
Return ==
  /\ pc = "loops"
  /\ ai = Len(element.attrib)
  /\ idx = Len(iter(element))
  /\ pc' = "returned node"
  /\ UNCHANGED <<zips, names, raised, element, node, calls, ai, idx, readerVars>>

NextShape == Enter \/ ShapeAttribute \/ ShapeSubelement \/ Return

SpecShape == InitShape /\ [][NextShape]_vars

\* the loop over element.attrib, run until it ends or raises
RECURSIVE shape_attributes(_, _)
shape_attributes(st, items) ==
  IF items = <<>> \/ st.raised # "" THEN st
  ELSE shape_attributes(shape_attribute(st, items[1]), Tail(items))

\* the loop over element.iter(), run until it ends or raises
RECURSIVE shape_subelements(_, _)
shape_subelements(st, items) ==
  IF items = <<>> \/ st.raised # "" THEN st
  ELSE shape_subelements(shape_subelement(st, items[1]), Tail(items))

\* clean_and_shape(element) as a function: the result of running it to the end
clean_and_shape(e) ==
  IF e.tag = s_node \/ e.tag = s_way
  THEN LET st0 == [node |-> setitem(<<>>, s_type, Str(e.tag)), calls |-> <<>>, raised |-> ""]
           st1 == shape_attributes(st0, e.attrib)
           st2 == shape_subelements(st1, iter(e))
       IN  [raised |-> st2.raised, value |-> Dict(st2.node)]
  ELSE [raised |-> "", value |-> None]

-----------------------------------------------------------------------------
(* Audit: the loop bodies of the five audit passes and of the export *)

\* lower.search(k): ^([a-z]|_)*$
lower(k) ==
  \E e \in 0..Len(k) : AtEnd(k, e) /\ \A i \in 1..e : k[i] \in Lower \cup {"_"}

\* lower_colon.search(k): ^([a-z]|_)*:([a-z]|_)*$
lower_colon(k) ==
  \E c \in 1..Len(k) : \E e \in c..Len(k) :
     /\ k[c] = ":"
     /\ AtEnd(k, e)
     /\ \A i \in (1..e) \ {c} : k[i] \in Lower \cup {"_"}

\* problemchars.search(k)
has_problemchars(k) == \E i \in 1..Len(k) : k[i] \in problemchars

\* d[k] += 1, or d[k] = 1 when d.get(k) is missing or zero
count(d, k) == setitem(d, k, IF k \in DOMAIN d /\ d[k] # 0 THEN d[k] + 1 ELSE 1)

\* body of the loop of count_tags
count_tags(loc, elem) ==
  [raised |-> "", locals |-> [elements |-> count(loc.elements, elem.tag)]]

\* body of the loop of count_keys
count_keys(loc, elem) ==
  IF elem.tag # s_tag THEN [raised |-> "", locals |-> loc]
  ELSE IF s_k \notin DOMAIN elem.attrib THEN [raised |-> "KeyError", locals |-> loc]
  ELSE [raised |-> "", locals |-> [keys |-> count(loc.keys, elem.attrib[s_k])]]

\* key_type(element, keys); a bucket is the pair [count, examples]
key_type(loc, elem) ==
  IF elem.tag # s_tag THEN [raised |-> "", locals |-> loc]
  ELSE IF s_k \notin DOMAIN elem.attrib THEN [raised |-> "KeyError", locals |-> loc]
  ELSE LET k == elem.attrib[s_k]
           bucket == IF lower(k) THEN "lower"
                     ELSE IF lower_colon(k) THEN "lower_colon"
                     ELSE IF has_problemchars(k) THEN "problemchars"
                     ELSE "other"
       IN  [raised |-> "",
            locals |-> [keys |-> [loc.keys EXCEPT ![bucket] =
                                    <<@[1] + 1, Append(@[2], elem.attrib)>>]]]

\* audit_street_type(street_types, street_name)
audit_street_type(street_types, street_name) ==
  LET m == street_type_re(street_name)
      street_type == SubSeq(street_name, m[1], m[2])
  IN  IF m[1] = 0 \/ street_type \in expected_street_type THEN street_types
      ELSE IF street_type \notin DOMAIN street_types \/ street_types[street_type] = {}
           THEN setitem(street_types, street_type, {street_name})
      ELSE setitem(street_types, street_type, street_types[street_type] \cup {street_name})

expected_zip ==
  { <<"1","7","5","4","7">>, <<"1","7","5","5","2">>, <<"1","7","5","4","5">>,
    <<"1","7","5","4","3">>, <<"1","7","5","2","2">>, <<"1","7","5","0","1">>,
    <<"1","7","5","0","8">>, <<"1","7","6","0","1">>, <<"1","7","5","0","5">>,
    <<"1","7","5","4","0">>, <<"1","7","5","2","9">>, <<"1","7","5","7","2">>,
    <<"1","7","5","6","2">>, <<"1","7","5","7","9">>, <<"1","7","5","6","0">>,
    <<"1","7","5","8","4">>, <<"1","7","6","0","2">>, <<"1","7","5","6","5">>,
    <<"1","7","5","1","6">>, <<"1","7","5","5","1">>, <<"1","7","5","8","2">>,
    <<"1","7","6","0","3">>, <<"1","7","5","1","2">>, <<"1","7","5","5","4">>,
    <<"1","7","6","0","4">>, <<"1","7","0","2","2">>, <<"1","7","3","1","7">>,
    <<"1","7","3","5","6">>, <<"1","7","3","6","8">>, <<"1","7","4","0","6">>,
    <<"1","7","5","2","0">>, <<"1","7","5","3","4">>, <<"1","7","5","3","8">>,
    <<"1","7","5","5","7">>, <<"1","7","5","6","8">>, <<"1","7","5","7","6">> }

\* audit_zip_code(zip_codes, zip_code); zip_codes['other'] is kept in field other
audit_zip_code(zip_codes, zip_code) ==
  IF zip_code \in expected_zip
  THEN [zip_codes EXCEPT !.counts[zip_code] = @ + 1]
  ELSE [zip_codes EXCEPT !.other = @ \cup {zip_code}]

\* elem.iter("tag"): the tag elements among the element and its descendants
iter_tag(elem) == SelectSeq(iter(elem), LAMBDA x : x.tag = s_tag)

\* lines 132-133 for one tag of elem.iter("tag")
audit_street_tag(st, tag) ==
  IF s_k \notin DOMAIN tag.attrib THEN [st EXCEPT !.raised = "KeyError"]
  ELSE IF tag.attrib[s_k] # s_addr_street THEN st
  ELSE IF s_v \notin DOMAIN tag.attrib THEN [st EXCEPT !.raised = "KeyError"]
  ELSE [st EXCEPT !.locals.street_types = audit_street_type(@, tag.attrib[s_v])]

RECURSIVE audit_street_tags(_, _)
audit_street_tags(st, tags) ==
  IF tags = <<>> \/ st.raised # "" THEN st
  ELSE audit_street_tags(audit_street_tag(st, tags[1]), Tail(tags))

\* body of the loop of audit_street_name
audit_street_name(loc, elem) ==
  IF elem.tag = s_node \/ elem.tag = s_way
  THEN audit_street_tags([raised |-> "", locals |-> loc], iter_tag(elem))
  ELSE [raised |-> "", locals |-> loc]

\* lines 172-173 for one tag of elem.iter("tag")
audit_zip_tag(st, tag) ==
  IF s_k \notin DOMAIN tag.attrib THEN [st EXCEPT !.raised = "KeyError"]
  ELSE IF tag.attrib[s_k] # s_addr_postcode THEN st
  ELSE IF s_v \notin DOMAIN tag.attrib THEN [st EXCEPT !.raised = "KeyError"]
  ELSE [st EXCEPT !.locals.zip_codes = audit_zip_code(@, tag.attrib[s_v])]

RECURSIVE audit_zip_tags(_, _)
audit_zip_tags(st, tags) ==
  IF tags = <<>> \/ st.raised # "" THEN st
  ELSE audit_zip_tags(audit_zip_tag(st, tags[1]), Tail(tags))

\* body of the loop of audit_zip_codes
audit_zip_codes(loc, elem) ==
  IF elem.tag = s_node \/ elem.tag = s_way
  THEN audit_zip_tags([raised |-> "", locals |-> loc], iter_tag(elem))
  ELSE [raised |-> "", locals |-> loc]

\* body of the loop of export_to_json: data holds the documents appended,
\* each of which is also written as one line of the output file
export_to_json(loc, elem) ==
  LET el == clean_and_shape(elem)
  IN  IF el.raised # "" THEN [raised |-> el.raised, locals |-> loc]
      ELSE IF Truthy(el.value) THEN [raised |-> "", locals |-> [data |-> Append(loc.data, el.value)]]
      ELSE [raised |-> "", locals |-> loc]

Passes ==
  {"count_tags", "count_keys", "audit_key_types", "audit_street_name", "audit_zip_codes",
   "export_to_json"}

\* the events argument of the pass's call of ET.iterparse
events(p) ==
  IF p \in {"audit_street_name", "audit_zip_codes"} THEN {"start"} ELSE {"end"}

\* the accumulator of a pass before its loop
initial(p) ==
  CASE p = "count_tags" -> [elements |-> <<>>]
    [] p = "count_keys" -> [keys |-> <<>>]
    [] p = "audit_key_types" ->
         [keys |-> [b \in {"lower", "lower_colon", "problemchars", "other"} |-> <<0, <<>> >>]]
    [] p = "audit_street_name" -> [street_types |-> <<>>]
    [] p = "audit_zip_codes" -> [zip_codes |-> [counts |-> [z \in expected_zip |-> 0], other |-> {}]]
    [] p = "export_to_json" -> [data |-> <<>>]

body(p, loc, elem) ==
  CASE p = "count_tags" -> count_tags(loc, elem)
    [] p = "count_keys" -> count_keys(loc, elem)
    [] p = "audit_key_types" -> key_type(loc, elem)
    [] p = "audit_street_name" -> audit_street_name(loc, elem)
    [] p = "audit_zip_codes" -> audit_zip_codes(loc, elem)
    [] p = "export_to_json" -> export_to_json(loc, elem)

-----------------------------------------------------------------------------
(* The streaming reader: ET.iterparse over the document *)

RECURSIVE Flatten(_)
Flatten(ss) == IF ss = <<>> THEN <<>> ELSE ss[1] \o Flatten(Tail(ss))

\* the parse events of a document in document order; an element is named by
\* its path: <<>> the root, <<i>> its i-th child, <<i, j>> that child's j-th child
Tokens(f) ==
  LET child(i) ==
        <<[ev |-> "start", path |-> <<i>>]>>
        \o Flatten([j \in 1..Len(f[i].subs) |->
                      <<[ev |-> "start", path |-> <<i, j>>], [ev |-> "end", path |-> <<i, j>>]>>])
        \o <<[ev |-> "end", path |-> <<i>>]>>
  IN  <<[ev |-> "start", path |-> <<>>]>>
      \o Flatten([i \in 1..Len(f) |-> child(i)])
      \o <<[ev |-> "end", path |-> <<>>]>>

\* tag and attributes of the element at a path
Info(f, p) ==
  IF p = <<>> THEN [tag |-> s_osm, attrib |-> <<>>]
  ELSE IF Len(p) = 1 THEN [tag |-> f[p[1]].tag, attrib |-> f[p[1]].attrib]
  ELSE f[p[1]].subs[p[2]]

IsBelow(q, p) == Len(q) > Len(p) /\ SubSeq(q, 1, Len(p)) = p

\* the element at path p as it is in memory once n parse events are consumed:
\* a descendant is attached to it when the parser has seen its start tag
Built(f, p, n) ==
  LET T == Tokens(f)
      attached == SelectSeq(SubSeq(T, 1, n), LAMBDA t : t.ev = "start" /\ IsBelow(t.path, p))
  IN  [tag |-> Info(f, p).tag,
       attrib |-> Info(f, p).attrib,
       subs |-> [i \in 1..Len(attached) |-> Info(f, attached[i].path)]]

\* the top-level elements a document is built from
ElementPool ==
  { [tag |-> s_node, attrib |-> << <<s_id, <<"1">> >> >>,
     subs |-> <<Tag(s_addr_street, <<"a"," ","S","t">>)>>],
    [tag |-> s_way, attrib |-> << <<s_id, <<"2">> >> >>,
     subs |-> <<Nd(<<"1">>), Tag(s_addr_postcode, <<"1","7","2","5","0">>)>>],
    [tag |-> s_node, attrib |-> << <<s_lat, <<"4">> >>, <<s_lon, <<"7">> >> >>,
     subs |-> <<Tag(<<"a","d","d","r",":","c","i","t","y">>, <<"L">>), Tag(s_addr_postcode, <<"1","7","6","0","2">>)>>],
    [tag |-> s_relation, attrib |-> <<>>,
     subs |-> <<Tag(<<"a"," ","B">>, <<"x">>)>>] }

Files == SeqsUpTo(ElementPool, MaxElems)

InitReader ==
  /\ file \in Files
  /\ pass \in Passes
  /\ fed = 0
  /\ queue = <<>>
  /\ held = {}
  /\ cur = 0
  /\ locals = initial(pass)
  /\ rpc = "iterating"
  /\ raised = ""
  /\ zips = <<>>
  /\ names = <<>>
  /\ NoShape

\* iterparse reads the next block of the file and feeds it to the parser: the
\* elements started in the block are created and attached to their parents,
\* and the block's events of the requested kinds are queued
Feed ==
  /\ rpc = "iterating"
  /\ queue = <<>>
  /\ fed < Len(Tokens(file))
  /\ \E n \in 1..(Len(Tokens(file)) - fed) :
       /\ fed' = fed + n
       /\ queue' = SelectSeq([i \in 1..n |-> fed + i],
                             LAMBDA i : Tokens(file)[i].ev \in events(pass))
       /\ held' = held \cup {Tokens(file)[i].path : i \in {j \in (fed + 1)..(fed + n) :
                                                             Tokens(file)[j].ev = "start"}}
  /\ UNCHANGED <<zips, names, raised, shapeVars, file, pass, cur, locals, rpc>>

\* the loop takes the next queued event and runs the body of the pass on its element
Handle ==
  /\ rpc = "iterating"
  /\ queue # <<>>
  /\ cur' = Head(queue)
  /\ queue' = Tail(queue)
  /\ LET r == body(pass, locals, Built(file, Tokens(file)[Head(queue)].path, fed))
     IN  /\ locals' = r.locals
         /\ raised' = r.raised
         /\ rpc' = IF r.raised = "" THEN rpc ELSE "raised"
  /\ UNCHANGED <<zips, names, shapeVars, file, pass, fed, held>>

\* end of file: the iterator is exhausted and the pass returns its accumulator
Finish ==
  /\ rpc = "iterating"
  /\ queue = <<>>
  /\ fed = Len(Tokens(file))
  /\ rpc' = "returned"
  /\ UNCHANGED <<zips, names, raised, shapeVars, file, pass, fed, queue, held, cur, locals>>

NextReader == Feed \/ Handle \/ Finish

SpecReader == InitReader /\ [][NextReader]_vars

-----------------------------------------------------------------------------
(* Repeated application of update_zip_code to a postcode value *)

ZipFragments == {<<"1","7","2","5","0">>, <<"P","A"," ">>, <<"-">>, <<"1">>, <<"P","A">>}

ZipInputs == Concats(ZipFragments, MaxPieces)

InitZip ==
  /\ zips \in {<<z>> : z \in ZipInputs}
  /\ names = <<>>
  /\ raised = ""
  /\ NoShape
  /\ NoReader

ApplyZip ==
  /\ zips # <<>>
  /\ Len(zips) <= MaxApply
  /\ zips' = Append(zips, update_zip_code(Last(zips)))
  /\ UNCHANGED <<names, raised, shapeVars, readerVars>>

NextZip == ApplyZip

SpecZip == InitZip /\ [][NextZip]_vars

-----------------------------------------------------------------------------
(* Repeated application of update_street_name to a street value *)

StreetFragments ==
  {<<"S","t">>, <<"S","t",".">>, <<"R","d">>, <<"S","t","r","e","e","t">>, <<"d","r","i","v","e">>,
   <<" ">>, <<"-">>, <<"a">>, <<"\n">>}

StreetInputs == Concats(StreetFragments, MaxPieces)

InitStreet ==
  /\ names \in {<<n>> : n \in StreetInputs}
  /\ zips = <<>>
  /\ raised = ""
  /\ NoShape
  /\ NoReader

ApplyStreet ==
  /\ names # <<>>
  /\ raised = ""
  /\ Len(names) <= MaxApply
  /\ LET r == update_street_name(Last(names), mapping)
     IN  /\ raised' = r.raised
         /\ names' = IF r.raised = "" THEN Append(names, r.value) ELSE names
  /\ UNCHANGED <<zips, shapeVars, readerVars>>

NextStreet == ApplyStreet

SpecStreet == InitStreet /\ [][NextStreet]_vars

-----------------------------------------------------------------------------
(* Properties of update_zip_code *)

\* the four-rule chain as stated: typo, first hyphen, leading "PA " stripped, else unchanged
ZipChain(z) ==
  IF z = <<"1","7","2","5","0">> THEN <<"1","7","5","2","0">>
  ELSE IF \E i \in 1..Len(z) : z[i] = "-"
       THEN SubSeq(z, 1, (CHOOSE i \in 1..Len(z) : z[i] = "-" /\ \A j \in 1..(i - 1) : z[j] # "-") - 1)
  ELSE IF startswith(z, <<"P","A"," ">>) THEN SubSeq(z, 4, Len(z))
  ELSE z

\* C2: for every z, update_zip_code(z) is the result of the four-rule chain,
\* the third rule stripping the leading "PA " and keeping the whole remainder.
C2_ZipFollowsChain ==
  Len(zips) >= 2 => zips[2] = ZipChain(zips[1])

\* C3 as stated: update_zip_code(update_zip_code(z)) = update_zip_code(z) for every z.
C3_ZipIdempotent ==
  Len(zips) >= 3 => zips[3] = zips[2]

\* C3 amended: a second application returns the first result unless that result
\* is exactly "17250" or starts with "PA "; and in every case the value no
\* longer changes after three applications.
C3_ZipIdempotentUnlessRetriggered ==
  /\ (/\ Len(zips) >= 3
      /\ zips[2] # <<"1","7","2","5","0">>
      /\ ~startswith(zips[2], <<"P","A"," ">>)) => zips[3] = zips[2]
  /\ Len(zips) >= 5 => zips[5] = zips[4]

\* a value that the first application changed, applied a second time
C3_Witness ==
  /\ Len(zips) >= 3
  /\ zips[2] # zips[1]
  /\ zips[2] # <<"1","7","2","5","0">>
  /\ ~startswith(zips[2], <<"P","A"," ">>)
  /\ find(zips[1], <<"-">>) # 0

-----------------------------------------------------------------------------
(* Properties of update_street_name *)

\* the suffix is one that update_street_name rewrites
Rewritten(name) ==
  LET m == street_type_re(name)
      s == SubSeq(name, m[1], m[2])
  IN  m[1] # 0 /\ s \notin expected_street_type /\ s \in DOMAIN mapping

\* C4: when the trailing suffix s is a non-whitelisted mapping key, the result is
\* the text preceding the trailing suffix followed by mapping[s], also when s
\* occurs earlier in the name.
C4_TrailingSuffixReplaced ==
  (Len(names) >= 2 /\ Rewritten(names[1])) =>
     LET m == street_type_re(names[1])
     IN  names[2] = SubSeq(names[1], 1, m[1] - 1) \o mapping[SubSeq(names[1], m[1], m[2])]

\* C8: once update_street_name has returned a result, applying it again returns
\* the same result, and the suffix of a result is never a non-whitelisted mapping key.
C8_StreetIdempotent ==
  /\ Len(names) >= 2 => (raised = "" /\ ~Rewritten(names[2]))
  /\ Len(names) >= 3 => names[3] = names[2]

\* a name that was corrected, then passed through update_street_name again
C8_Witness ==
  /\ Len(names) >= 3
  /\ Rewritten(names[1])
  /\ names[2] # names[1]

-----------------------------------------------------------------------------
(* Properties of clean_and_shape *)

\* the loop over element.iter() is about to process its next element
AtSubelement ==
  pc = "loops" /\ ai = Len(element.attrib) /\ idx < Len(iter(element))

\* a tag element with both attributes whose sanitized key starts with addr
AddrTag(sub) ==
  /\ sub.tag = s_tag
  /\ s_k \in DOMAIN sub.attrib /\ s_v \in DOMAIN sub.attrib
  /\ startswith(remove_problem_chars(sub.attrib[s_k]), s_addr)

\* the colon-separated segments of the sanitized key
Segments(sub) == split(remove_problem_chars(sub.attrib[s_k]), <<":">>)

\* the value of the tag after the normalizer selected by its key
CleanValue(sub) ==
  IF Segments(sub) = <<s_addr, s_street>> THEN update_street_name(sub.attrib[s_v], mapping).value
  ELSE IF Segments(sub) = <<s_addr, s_postcode>> THEN update_zip_code(sub.attrib[s_v])
  ELSE sub.attrib[s_v]

\* the ref values of the nd descendants, in document order
RECURSIVE Refs(_)
Refs(subs) ==
  IF subs = <<>> THEN <<>>
  ELSE (IF subs[1].tag = s_nd /\ s_ref \in DOMAIN subs[1].attrib
        THEN <<Str(subs[1].attrib[s_ref])>> ELSE <<>>) \o Refs(Tail(subs))

\* C1: the document returned for a node or way element has type equal to the
\* element's tag name, whatever attributes and child tags the element carries.
C1_TypeIsTagName ==
  pc = "returned node" => node[s_type] = Str(element.tag)

\* C5: a child tag whose sanitized key starts with addr and has one or two
\* segments is shaped without error and its cleaned value is stored in
\* address under the key's second segment.
C5_AddrTagStored ==
  [][(AtSubelement /\ AddrTag(iter(element)[idx + 1]) /\ Len(Segments(iter(element)[idx + 1])) <= 2)
       => /\ raised' = ""
          /\ node'[s_address].kind = "dict"
          /\ Segments(iter(element)[idx + 1])[2] \in DOMAIN node'[s_address].dict
          /\ node'[s_address].dict[Segments(iter(element)[idx + 1])[2]]
               = Str(CleanValue(iter(element)[idx + 1]))]_vars

\* C6: for a way with nd descendants, node_refs of the returned document is
\* exactly the sequence of their ref values in document order.
C6_NodeRefsInOrder ==
  (pc = "returned node" /\ element.tag = s_way /\ Refs(element.subs) # <<>>)
     => (s_node_refs \in DOMAIN node /\ node[s_node_refs] = List(Refs(element.subs)))

\* C7: processing a child tag (with k and v) whose sanitized key starts with
\* addr and has more than two segments leaves the document as it was, calls
\* no normalizer and raises no error.
C7_DeepAddrTagDropped ==
  [][(AtSubelement /\ AddrTag(iter(element)[idx + 1]) /\ Len(Segments(iter(element)[idx + 1])) > 2)
       => /\ node' = node
          /\ calls' = calls
          /\ raised' = ""
          /\ pc' = "loops"]_vars

\* a deep addr tag has just been processed in a document that already has an address
C7_Witness ==
  /\ pc = "loops"
  /\ idx >= 2
  /\ AddrTag(iter(element)[idx])
  /\ Len(Segments(iter(element)[idx])) > 2
  /\ s_address \in DOMAIN node
  /\ calls # <<>>

-----------------------------------------------------------------------------
(* Properties of the streaming passes *)

\* index of the end event of the element at path p
EndIndex(f, p) ==
  CHOOSE i \in 1..Len(Tokens(f)) : Tokens(f)[i].ev = "end" /\ Tokens(f)[i].path = p

\* the top-level element that encloses the element at path p
Top(p) == IF p = <<>> THEN <<>> ELSE <<p[1]>>

\* C9: when audit_street_name returns, every addr:street value of every node
\* and way of the file whose suffix is not expected is in the grouping under
\* that suffix, however the parser delivered the file.
C9_AllStreetTagsAudited ==
  (pass = "audit_street_name" /\ rpc = "returned") =>
     \A i \in 1..Len(file) : \A j \in 1..Len(file[i].subs) :
        LET e == file[i]
            t == e.subs[j]
        IN  (/\ e.tag \in {s_node, s_way}
             /\ t.tag = s_tag
             /\ s_k \in DOMAIN t.attrib /\ s_v \in DOMAIN t.attrib
             /\ t.attrib[s_k] = s_addr_street)
            => LET v == t.attrib[s_v]
                   m == street_type_re(v)
                   street_type == SubSeq(v, m[1], m[2])
               IN  (m[1] # 0 /\ street_type \notin expected_street_type)
                   => /\ street_type \in DOMAIN locals.street_types
                      /\ v \in locals.street_types[street_type]

\* C10: while a pass iterates, no element is held whose enclosing top-level
\* element was closed before the event being handled: what is in memory is
\* the root, the top-level element being handled with its subtree, and what
\* the parser has read ahead.
C10_FinishedElementsReleased ==
  (rpc = "iterating" /\ cur # 0 /\ Tokens(file)[cur].path # <<>>) =>
     \A p \in held :
        \/ p = <<>>
        \/ Top(p) = Top(Tokens(file)[cur].path)
        \/ EndIndex(file, Top(p)) >= cur

====
